---- MODULE Spec2Model ----
(***************************************************************************)
(* Attendance management system: the storage operations of models.py      *)
(* (Student, Attendance, Session) over the three tables that db_init.py    *)
(* creates.                                                                *)
(*                                                                         *)
(* Representation.                                                         *)
(*  - Instants are whole hours since 00:00 of a Monday; a calendar date is *)
(*    the day number now \div 24, so weekday(d) = d % 7 with 0 = Monday,   *)
(*    as datetime.date.weekday().  sqlite3 stores a date as the text       *)
(*    'YYYY-MM-DD' and a datetime as 'YYYY-MM-DD HH:MM:SS[.ffffff]'; the   *)
(*    text order of both is the chronological order, so BETWEEN and > on   *)
(*    the stored text are modelled by the integer order.                   *)
(*  - students and sessions are sequences in rowid order; the AUTOINCREMENT*)
(*    id of a student is its position (students are never deleted).        *)
(*  - attendance is a multiset of rows (a function row -> number of        *)
(*    copies): the row id is used only to update the row just selected.    *)
(*  - A call that raises leaves the tables as they were: every method      *)
(*    commits once, after its last write, and the connection is closed     *)
(*    without a commit when an exception propagates.                       *)
(***************************************************************************)
EXTENDS FiniteSets, Integers, Sequences, TLC

VARIABLES students, attendance, sessions, now, started, call, ret, issued, deleted,
          config, cookie, reqs

vars == <<students, attendance, sessions, now, started, call, ret, issued, deleted,
          config, cookie, reqs>>

(***************************************************************************)
(* Bounds of the model.                                                    *)
(***************************************************************************)
MaxElapsed == 24          \* hours the clock may advance after the start
MaxStudentId == 2         \* student ids passed to the operations: 1..MaxStudentId
MaxSessions == 2          \* session rows stored when tokens may repeat

HoursPerDay == 24
NULL == -1                \* SQL NULL / Python None in an integer column
Config == [ATTENDANCE_THRESHOLD |-> 75, ATTENDANCE_PERIOD_DAYS |-> 30]   \* config.py
ATTENDANCE_PERIOD_DAYS == config.ATTENDANCE_PERIOD_DAYS
SESSION_HOURS == 24

StartDays == 0 .. 6                      \* the program may start on any weekday
LedgerClockSteps == {12}                 \* hours by which the clock advances
WindowSizes == {-1, 0, 1, 7}             \* the days argument
StudentIds == 1 .. MaxStudentId
SessionClockSteps == {11, 12}       \* reaches 23 h and 24 h after a start
Tokens == {"t1", "t2"}

(***************************************************************************)
(* Clock: datetime.date.today() and datetime.datetime.now().               *)
(***************************************************************************)
date_today(t) == t \div HoursPerDay

weekday(d) == d % 7

(***************************************************************************)
(* Multisets of rows.                                                      *)
(***************************************************************************)
EmptyTable == << >>

Copies(tbl, row) == IF row \in DOMAIN tbl THEN tbl[row] ELSE 0

AddRow(tbl, row) ==
    IF row \in DOMAIN tbl
    THEN [tbl EXCEPT ![row] = @ + 1]
    ELSE [r \in (DOMAIN tbl) \cup {row} |-> IF r = row THEN 1 ELSE tbl[r]]

RemoveRow(tbl, row) ==
    IF Copies(tbl, row) > 1
    THEN [tbl EXCEPT ![row] = @ - 1]
    ELSE [r \in (DOMAIN tbl) \ {row} |-> tbl[r]]

RECURSIVE SumCopies(_, _)
SumCopies(tbl, rows) ==
    IF rows = {} THEN 0
    ELSE LET r == CHOOSE x \in rows : TRUE
         IN  tbl[r] + SumCopies(tbl, rows \ {r})

\* SELECT COUNT(*) over the rows that satisfy a condition
CountRows(tbl, rows) == SumCopies(tbl, rows \cap DOMAIN tbl)

(***************************************************************************)
(* attendance table: student_id, date, logged_in, login_time,              *)
(* FOREIGN KEY (student_id), UNIQUE (student_id, date).                    *)
(***************************************************************************)
AttRow(sid, d, li, lt) ==
    [student_id |-> sid, date |-> d, logged_in |-> li, login_time |-> lt]

\* rows WHERE student_id = ? AND date = ?
RowsOn(att, sid, d) ==
    {r \in DOMAIN att : r.student_id = sid /\ r.date = d}

\* rows WHERE student_id = ? AND date BETWEEN ? AND ?
RowsBetween(att, sid, start, end) ==
    {r \in DOMAIN att : r.student_id = sid /\ start <= r.date /\ r.date <= end}

\* variant: the connection never turns foreign keys on
ForeignKeyOK_pragma_off(stu, sid) == TRUE

\* PRAGMA foreign_keys = ON: the parent row must exist
ForeignKeyOK(stu, sid) == sid \in 1 .. Len(stu)

\* UNIQUE (student_id, date) as checked by an INSERT of one row
UniqueDateOK(att, sid, d) == RowsOn(att, sid, d) = {}

\* INSERT INTO attendance (executemany) of one row per date in ds for one
\* student.  ok = FALSE is sqlite3.IntegrityError: nothing is inserted.
InsertAttendance(att, stu, sid, ds, li, lt) ==
    IF ds # {} /\ ~ForeignKeyOK(stu, sid) THEN [ok |-> FALSE, att |-> att]
    ELSE IF \E d \in ds : ~UniqueDateOK(att, sid, d) THEN [ok |-> FALSE, att |-> att]
    ELSE [ok |-> TRUE,
          att |-> [r \in (DOMAIN att) \cup {AttRow(sid, d, li, lt) : d \in ds}
                     |-> IF r \in DOMAIN att THEN att[r] ELSE 1]]

\* results of a call: a returned value, or a propagated exception
Ok(v) == [raised |-> FALSE, value |-> v]

Err == [raised |-> TRUE, value |-> "IntegrityError"]

(***************************************************************************)
(* Attendance.mark_attendance                                              *)
(***************************************************************************)
\* variant: an INSERT without the lookup, into a table without the constraint
mark_attendance_insert_only(att, stu, sid, t) ==
    IF ~ForeignKeyOK(stu, sid) THEN [att |-> att, ret |-> Err]
    ELSE [att |-> AddRow(att, AttRow(sid, date_today(t), 1, t)), ret |-> Ok(TRUE)]

\* variant: a row already marked as logged in keeps its first login time
mark_attendance_keep_first(att, stu, sid, t) ==
    LET today == date_today(t)
        existing == RowsOn(att, sid, today)
    IN  IF existing # {}
        THEN LET row == CHOOSE r \in existing : TRUE
             IN  IF row.logged_in = 1 THEN [att |-> att, ret |-> Ok(TRUE)]
                 ELSE [att |-> AddRow(RemoveRow(att, row), AttRow(sid, today, 1, t)),
                       ret |-> Ok(TRUE)]
        ELSE LET ins == InsertAttendance(att, stu, sid, {today}, 1, t)
             IN  IF ins.ok THEN [att |-> ins.att, ret |-> Ok(TRUE)]
                 ELSE [att |-> att, ret |-> Err]

\* variant: UPDATE ... WHERE student_id = ?, every row of the student
mark_attendance_update_all(att, stu, sid, t) ==
    LET today == date_today(t)
        existing == RowsOn(att, sid, today)
        mine == {r \in DOMAIN att : r.student_id = sid}
        kept == DOMAIN att \ mine
    IN  IF existing # {}
        THEN [att |-> [r \in kept \cup {AttRow(sid, x.date, 1, t) : x \in mine}
                         |-> IF r \in kept THEN att[r] ELSE 1],
              ret |-> Ok(TRUE)]
        ELSE LET ins == InsertAttendance(att, stu, sid, {today}, 1, t)
             IN  IF ins.ok THEN [att |-> ins.att, ret |-> Ok(TRUE)]
                 ELSE [att |-> att, ret |-> Err]

mark_attendance(att, stu, sid, t) ==
    LET today == date_today(t)
        existing == RowsOn(att, sid, today)
    IN  IF existing # {}
        THEN LET row == CHOOSE r \in existing : TRUE      \* fetchone()
             IN  [att |-> AddRow(RemoveRow(att, row), AttRow(sid, today, 1, t)),
                  ret |-> Ok(TRUE)]
        ELSE LET ins == InsertAttendance(att, stu, sid, {today}, 1, t)
             IN  IF ins.ok THEN [att |-> ins.att, ret |-> Ok(TRUE)]
                 ELSE [att |-> att, ret |-> Err]

(***************************************************************************)
(* Attendance.get_attendance_percentage                                    *)
(***************************************************************************)
\* round(present / total * 100, 2) in hundredths of a percent.  The quotient
\* is an exact tie only when 32 divides total, beyond any window checked here.
Round2(present, total) == (2 * 10000 * present + total) \div (2 * total)

EffectiveDays(days) == IF days = 30 THEN ATTENDANCE_PERIOD_DAYS ELSE days

\* variant: Saturday counted as a working day
MissingDays_with_saturday(start_date, end_date, today) ==
    {d \in start_date .. end_date : d <= today /\ weekday(d) <= 5}

\* the dates the backfill loop collects
MissingDays(start_date, end_date, today) ==
    {d \in start_date .. end_date : d <= today /\ weekday(d) < 5}

\* variant: every call writes an absent row for each weekday (INSERT OR REPLACE)
BackfillAbsent_replace(att, stu, sid, start_date, end_date, t) ==
    LET missing_days == MissingDays(start_date, end_date, date_today(t))
        kept == {r \in DOMAIN att : ~(r.student_id = sid /\ r.date \in missing_days)}
        att1 == [r \in kept \cup {AttRow(sid, d, 0, NULL) : d \in missing_days}
                   |-> IF r \in kept THEN att[r] ELSE 1]
    IN  IF missing_days # {} /\ ~ForeignKeyOK(stu, sid)
        THEN [ok |-> FALSE, att |-> att, record_count |-> 0]
        ELSE [ok |-> TRUE, att |-> att1,
              record_count |-> CountRows(att1, RowsBetween(att1, sid, start_date, end_date))]

\* variant: an absent row for every weekday of the window that has no row
BackfillAbsent_fill_gaps(att, stu, sid, start_date, end_date, t) ==
    LET missing_days == {d \in MissingDays(start_date, end_date, date_today(t)) :
                            RowsOn(att, sid, d) = {}}
        ins == InsertAttendance(att, stu, sid, missing_days, 0, NULL)
    IN  [ok |-> ins.ok, att |-> ins.att,
         record_count |-> CountRows(ins.att, RowsBetween(ins.att, sid, start_date, end_date))]

\* the record count, after creating absent rows when the window holds none
BackfillAbsent(att, stu, sid, start_date, end_date, t) ==
    LET count0 == CountRows(att, RowsBetween(att, sid, start_date, end_date))
        missing_days == MissingDays(start_date, end_date, date_today(t))
        ins == InsertAttendance(att, stu, sid, missing_days, 0, NULL)
    IN  IF count0 = 0 /\ missing_days # {}
        THEN [ok |-> ins.ok, att |-> ins.att,
              record_count |-> Cardinality(missing_days)]
        ELSE [ok |-> TRUE, att |-> att, record_count |-> count0]

\* variant: the calendar days of the period instead of the records
TotalDays_in_period(record_count, days_in_period) == days_in_period

TotalDays(record_count, days_in_period) == record_count

Min(a, b) == IF a <= b THEN a ELSE b

get_attendance_percentage(att, stu, sid, days0, t) ==
    LET days == EffectiveDays(days0)
        end_date == date_today(t)
        start_date == end_date - (days - 1)
        days_in_period == Min(days, (end_date - start_date) + 1)
        bf == BackfillAbsent(att, stu, sid, start_date, end_date, t)
        present_days ==
            CountRows(bf.att, {r \in RowsBetween(bf.att, sid, start_date, end_date) :
                                  r.logged_in = 1})
        total_days == TotalDays(bf.record_count, days_in_period)
        percentage == IF total_days > 0 THEN Round2(present_days, total_days) ELSE 0
    IN  IF ~bf.ok THEN [att |-> att, ret |-> Err]
        ELSE [att |-> bf.att,
              ret |-> Ok([percentage |-> percentage,
                          present_days |-> present_days,
                          total_days |-> total_days,
                          start_date |-> start_date,
                          end_date |-> end_date])]

(***************************************************************************)
(* Attendance.get_attendance_history                                       *)
(***************************************************************************)
Entry(r) == [date |-> r.date, logged_in |-> r.logged_in, login_time |-> r.login_time]

\* variant: ORDER BY date ASC
RECURSIVE OrderByDateAsc(_)
OrderByDateAsc(tbl) ==
    IF DOMAIN tbl = {} THEN << >>
    ELSE LET r == CHOOSE x \in DOMAIN tbl : \A y \in DOMAIN tbl : x.date <= y.date
         IN  <<Entry(r)>> \o OrderByDateAsc(RemoveRow(tbl, r))

\* the selected rows ORDER BY date DESC, one entry per stored copy
RECURSIVE OrderByDateDesc(_)
OrderByDateDesc(tbl) ==
    IF DOMAIN tbl = {} THEN << >>
    ELSE LET r == CHOOSE x \in DOMAIN tbl : \A y \in DOMAIN tbl : y.date <= x.date
         IN  <<Entry(r)>> \o OrderByDateDesc(RemoveRow(tbl, r))

get_attendance_history(att, sid, days, t) ==
    LET end_date == date_today(t)
        start_date == end_date - (days - 1)
        rows == RowsBetween(att, sid, start_date, end_date)
        attendance_records == OrderByDateDesc([r \in rows |-> att[r]])
    IN  IF attendance_records = << >>
        THEN Ok(<<[date |-> end_date, logged_in |-> 0, login_time |-> NULL]>>)
        ELSE Ok(attendance_records)

(***************************************************************************)
(* Student.create: students(username UNIQUE, password, name, email UNIQUE) *)
(***************************************************************************)
\* hashlib.sha256(password).hexdigest(), taken as injective
sha256(password) == <<"sha256", password>>

\* variant: students.email without its UNIQUE constraint
Student_create_email_not_unique(stu, username, password, name, email) ==
    IF \E i \in 1 .. Len(stu) : stu[i].username = username
    THEN [stu |-> stu, ret |-> Ok(FALSE)]
    ELSE [stu |-> Append(stu, [username |-> username, password |-> sha256(password),
                               name |-> name, email |-> email]),
          ret |-> Ok(TRUE)]

Student_create(stu, username, password, name, email) ==
    IF \E i \in 1 .. Len(stu) : stu[i].username = username \/ stu[i].email = email
    THEN [stu |-> stu, ret |-> Ok(FALSE)]           \* except sqlite3.IntegrityError
    ELSE [stu |-> Append(stu, [username |-> username, password |-> sha256(password),
                               name |-> name, email |-> email]),
          ret |-> Ok(TRUE)]

(***************************************************************************)
(* Student.verify_password                                                 *)
(***************************************************************************)
\* variant: WHERE username = ? alone
verify_password_username_only(stu, username, password) ==
    LET result == {i \in 1 .. Len(stu) : stu[i].username = username}
    IN  Ok(IF result # {} THEN CHOOSE i \in result : \A j \in result : i <= j
           ELSE NULL)

\* SELECT id FROM students WHERE username = ? AND password = ?; fetchone()
verify_password(stu, username, password) ==
    LET hashed_password == sha256(password)
        result == {i \in 1 .. Len(stu) :
                      stu[i].username = username /\ stu[i].password = hashed_password}
    IN  Ok(IF result # {} THEN CHOOSE i \in result : \A j \in result : i <= j
           ELSE NULL)

(***************************************************************************)
(* Session: sessions(student_id FOREIGN KEY, session_token, expires_at).   *)
(* created_at is filled by its default and never read.                     *)
(***************************************************************************)
Session_create(ses, stu, sid, token, t) ==
    LET expires_at == t + SESSION_HOURS
    IN  IF ~ForeignKeyOK(stu, sid) THEN [ses |-> ses, ret |-> Err]
        ELSE [ses |-> Append(ses, [student_id |-> sid, session_token |-> token,
                                   expires_at |-> expires_at]),
              ret |-> Ok(token)]

\* variant: expires_at >= ?
LiveRows_inclusive(ses, token, t) ==
    SelectSeq(ses, LAMBDA r : r.session_token = token /\ r.expires_at >= t)

\* rows WHERE session_token = ? AND expires_at > ?, in rowid order
LiveRows(ses, token, t) ==
    SelectSeq(ses, LAMBDA r : r.session_token = token /\ r.expires_at > t)

Session_validate(ses, token, t) ==
    LET result == LiveRows(ses, token, t)                  \* fetchone()
    IN  [ses |-> ses,
         ret |-> Ok(IF result # << >> THEN result[1].student_id ELSE NULL)]

\* variant: the DELETE is never committed
Session_delete_uncommitted(ses, token) ==
    LET rowcount == Len(SelectSeq(ses, LAMBDA r : r.session_token = token))
    IN  [ses |-> ses, ret |-> Ok(rowcount > 0)]

Session_delete(ses, token) ==
    LET rowcount == Len(SelectSeq(ses, LAMBDA r : r.session_token = token))
    IN  [ses |-> SelectSeq(ses, LAMBDA r : r.session_token # token),
         ret |-> Ok(rowcount > 0)]

(***************************************************************************)
(* The calls, as steps.  call records the last call and, for               *)
(* mark_attendance, what its lookup of today's row found.                  *)
(***************************************************************************)
Call(op, sid, days, token, found) ==
    [op |-> op, sid |-> sid, days |-> days, token |-> token,
     found |-> found.state, found_time |-> found.login_time, at |-> now]

NotLooked == [state |-> "", login_time |-> NULL]

Found(att, sid, d) ==
    IF RowsOn(att, sid, d) = {} THEN [state |-> "none", login_time |-> NULL]
    ELSE LET row == CHOOSE r \in RowsOn(att, sid, d) : TRUE
         IN  [state |-> IF row.logged_in = 1 THEN "present" ELSE "absent",
              login_time |-> row.login_time]

\* the requests that may be in progress at once, each on its own connection
Requests == {1, 2}

Idle == [op |-> "none", pc |-> "idle", sid |-> 0, days |-> 0, at |-> 0,
         found |-> "", record_count |-> 0, result |-> Ok(TRUE)]

\* the state after db_init created the tables, under one of the configurations
Installed(configs) ==
    /\ config \in configs
    /\ cookie = ""
    /\ reqs = [p \in Requests |-> Idle]
    /\ students = << >>
    /\ attendance = EmptyTable
    /\ sessions = << >>
    /\ now \in {HoursPerDay * d : d \in StartDays}
    /\ started = now
    /\ call = [op |-> "none", sid |-> 0, days |-> 0, token |-> "", found |-> "",
               found_time |-> NULL, at |-> now]
    /\ ret = Ok(TRUE)
    /\ issued = {}
    /\ deleted = {}

Init == Installed({Config})

Register(regs) ==
    \E reg \in regs :
        LET res == Student_create(students, reg[1], reg[2], reg[3], reg[4])
        IN  /\ students' = res.stu
            /\ ret' = res.ret
            /\ call' = Call("create_student", 0, 0, "", NotLooked)
            /\ UNCHANGED <<attendance, sessions, now, started, issued, deleted,
                         config, cookie, reqs>>

MarkAttendance ==
    \E sid \in StudentIds :
        LET res == mark_attendance(attendance, students, sid, now)
        IN  /\ attendance' = res.att
            /\ ret' = res.ret
            /\ call' = Call("mark_attendance", sid, 0, "",
                            Found(attendance, sid, date_today(now)))
            /\ UNCHANGED <<students, sessions, now, started, issued, deleted,
                         config, cookie, reqs>>

GetAttendancePercentage(windows) ==
    \E sid \in StudentIds, days \in windows :
        LET res == get_attendance_percentage(attendance, students, sid, days, now)
        IN  /\ attendance' = res.att
            /\ ret' = res.ret
            /\ call' = Call("get_attendance_percentage", sid, days, "", NotLooked)
            /\ UNCHANGED <<students, sessions, now, started, issued, deleted,
                         config, cookie, reqs>>

\* variant: the entry made up for today is also inserted
GetAttendanceHistory_persist(windows) ==
    \E sid \in StudentIds, days \in windows :
        LET today == date_today(now)
            rows == RowsBetween(attendance, sid, today - (days - 1), today)
        IN  /\ ret' = get_attendance_history(attendance, sid, days, now)
            /\ call' = Call("get_attendance_history", sid, days, "", NotLooked)
            /\ attendance' = IF rows = {}
                             THEN InsertAttendance(attendance, students, sid, {today},
                                                   0, NULL).att
                             ELSE attendance
            /\ UNCHANGED <<students, sessions, now, started, issued, deleted,
                           config, cookie, reqs>>

GetAttendanceHistory(windows) ==
    \E sid \in StudentIds, days \in windows :
        /\ ret' = get_attendance_history(attendance, sid, days, now)
        /\ call' = Call("get_attendance_history", sid, days, "", NotLooked)
        /\ UNCHANGED <<students, attendance, sessions, now, started, issued, deleted,
                         config, cookie, reqs>>

AdvanceClock(steps) ==
    \E h \in steps :
        /\ now + h <= started + MaxElapsed
        /\ now' = now + h
        /\ UNCHANGED <<students, attendance, sessions, started, call, ret, issued, deleted,
                         config, cookie, reqs>>

SessionCreate ==
    \* secrets.token_hex(16): 128 random bits, never a token that was issued
    \* or presented for deletion before
    \E sid \in StudentIds, token \in (Tokens \ {i.token : i \in issued}) \ deleted :
        LET res == Session_create(sessions, students, sid, token, now)
        IN  /\ sessions' = res.ses
            /\ ret' = res.ret
            /\ call' = Call("create", sid, 0, token, NotLooked)
            /\ issued' = IF res.ret.raised THEN issued
                         ELSE issued \cup {[token |-> token, student_id |-> sid,
                                            created |-> now]}
            /\ UNCHANGED <<students, attendance, now, started, deleted,
                         config, cookie, reqs>>

SessionValidate ==
    \E token \in Tokens :
        LET res == Session_validate(sessions, token, now)
        IN  /\ sessions' = res.ses
            /\ ret' = res.ret
            /\ call' = Call("validate", 0, 0, token, NotLooked)
            /\ UNCHANGED <<students, attendance, now, started, issued, deleted,
                         config, cookie, reqs>>

SessionDelete ==
    \E token \in Tokens :
        LET res == Session_delete(sessions, token)
        IN  /\ sessions' = res.ses
            /\ ret' = res.ret
            /\ call' = Call("delete", 0, 0, token, NotLooked)
            /\ deleted' = deleted \cup {token}
            /\ UNCHANGED <<students, attendance, now, started, issued,
                         config, cookie, reqs>>

LedgerRegistrations ==
    { <<"alice", "pw1", "Alice", "a@x">>, <<"bob", "pw2", "Bob", "b@x">> }

(***************************************************************************)
(* Spec: the attendance ledger, with registration and the calendar.        *)
(***************************************************************************)
Next ==
    \/ Register(LedgerRegistrations)
    \/ MarkAttendance
    \/ GetAttendancePercentage(WindowSizes)
    \/ GetAttendanceHistory(WindowSizes)
    \/ AdvanceClock(LedgerClockSteps)

Spec == Init /\ [][Next]_vars

(***************************************************************************)
(* SpecConfigured: the ledger under each configured default period, with   *)
(* the default days = 30 among the windows asked for.                      *)
(***************************************************************************)
ConfiguredPeriods == {7, 30}
Configurations == {[Config EXCEPT !.ATTENDANCE_PERIOD_DAYS = p] : p \in ConfiguredPeriods}
ConfiguredWindows == {7, 30}
ConfiguredRegistrations == { <<"alice", "pw1", "Alice", "a@x">> }

NextConfigured ==
    \/ Register(ConfiguredRegistrations)
    \/ MarkAttendance
    \/ GetAttendancePercentage(ConfiguredWindows)
    \/ GetAttendanceHistory(ConfiguredWindows)
    \/ AdvanceClock(LedgerClockSteps)

SpecConfigured == Installed(Configurations) /\ [][NextConfigured]_vars

(***************************************************************************)
(* SpecSession: the session registry, with registration and the clock.     *)
(***************************************************************************)
NextSession ==
    \/ Register(LedgerRegistrations)
    \/ SessionCreate
    \/ SessionValidate
    \/ SessionDelete
    \/ AdvanceClock(SessionClockSteps)

SpecSession == Init /\ [][NextSession]_vars

(***************************************************************************)
(* SpecAnyToken: the session registry when secrets.token_hex(16) may       *)
(* return any value, a stored one included.  The sessions table has no     *)
(* constraint on session_token, so the INSERT is the one of Session_create.*)
(***************************************************************************)
SessionCreateAnyToken ==
    \E sid \in StudentIds, token \in Tokens :
        LET res == Session_create(sessions, students, sid, token, now)
        IN  /\ Len(sessions) < MaxSessions
            /\ sessions' = res.ses
            /\ ret' = res.ret
            /\ call' = Call("create", sid, 0, token, NotLooked)
            /\ UNCHANGED <<students, attendance, now, started, issued, deleted,
                           config, cookie, reqs>>

NextAnyToken ==
    \/ Register(LedgerRegistrations)
    \/ SessionCreateAnyToken
    \/ SessionValidate
    \/ SessionDelete
    \/ AdvanceClock(SessionClockSteps)

SpecAnyToken == Init /\ [][NextAnyToken]_vars

(***************************************************************************)
(* SpecInterleaved: mark_attendance and get_attendance_percentage as the   *)
(* statements they execute, for two requests that run at once.  Each       *)
(* request has its own connection; a step is one statement (a write        *)
(* together with its commit), so the statements of the two requests        *)
(* interleave freely.  Nothing in the code takes a lock or opens a         *)
(* transaction before the SELECT.                                          *)
(***************************************************************************)
InterleavedWindows == {1, 7}
InterleavedClockSteps == {12}

\* a request is one call
Free(p) == reqs[p].pc = "idle"

\* today, now = ...; SELECT id, logged_in ... WHERE student_id = ? AND date = ?
MarkSelect(p) ==
    /\ Free(p)
    /\ \E sid \in StudentIds :
          reqs' = [reqs EXCEPT ![p] =
                     [op |-> "mark_attendance", pc |-> "selected", sid |-> sid,
                      days |-> 0, at |-> now,
                      found |-> Found(attendance, sid, date_today(now)).state,
                      record_count |-> 0, result |-> Ok(TRUE)]]
    /\ UNCHANGED <<students, attendance, sessions, now, started, call, ret, issued,
                   deleted, config, cookie>>

\* UPDATE ... WHERE id = existing['id'], or INSERT; then commit
MarkWrite(p) ==
    /\ reqs[p].pc = "selected"
    /\ LET r == reqs[p]
           today == date_today(r.at)
           rows == RowsOn(attendance, r.sid, today)
           updated == IF rows = {} THEN attendance
                      ELSE AddRow(RemoveRow(attendance, CHOOSE row \in rows : TRUE),
                                  AttRow(r.sid, today, 1, r.at))
           ins == InsertAttendance(attendance, students, r.sid, {today}, 1, r.at)
           res == IF r.found # "none" THEN [att |-> updated, ret |-> Ok(TRUE)]
                  ELSE IF ins.ok THEN [att |-> ins.att, ret |-> Ok(TRUE)]
                  ELSE [att |-> attendance, ret |-> Err]
       IN  /\ attendance' = res.att
           /\ reqs' = [reqs EXCEPT ![p].pc = "done", ![p].result = res.ret]
    /\ UNCHANGED <<students, sessions, now, started, call, ret, issued, deleted,
                   config, cookie>>

\* SELECT COUNT(*) ... BETWEEN ? AND ?; the backfill follows when it is 0
\* and the window has a weekday
PctCount(p) ==
    /\ Free(p)
    /\ \E sid \in StudentIds, days0 \in InterleavedWindows :
          LET end_date == date_today(now)
              start_date == end_date - (EffectiveDays(days0) - 1)
              record_count ==
                  CountRows(attendance, RowsBetween(attendance, sid, start_date, end_date))
              missing_days == MissingDays(start_date, end_date, end_date)
          IN  reqs' = [reqs EXCEPT ![p] =
                         [op |-> "get_attendance_percentage",
                          pc |-> IF record_count = 0 /\ missing_days # {}
                                 THEN "counted" ELSE "filled",
                          sid |-> sid, days |-> days0, at |-> now, found |-> "",
                          record_count |-> record_count, result |-> Ok(TRUE)]]
    /\ UNCHANGED <<students, attendance, sessions, now, started, call, ret, issued,
                   deleted, config, cookie>>

\* executemany INSERT of the absent rows; then commit
PctBackfill(p) ==
    /\ reqs[p].pc = "counted"
    /\ LET r == reqs[p]
           end_date == date_today(r.at)
           start_date == end_date - (EffectiveDays(r.days) - 1)
           missing_days == MissingDays(start_date, end_date, end_date)
           ins == InsertAttendance(attendance, students, r.sid, missing_days, 0, NULL)
       IN  /\ attendance' = ins.att
           /\ reqs' = IF ins.ok
                      THEN [reqs EXCEPT ![p].pc = "filled",
                                        ![p].record_count = Cardinality(missing_days)]
                      ELSE [reqs EXCEPT ![p].pc = "done", ![p].result = Err]
    /\ UNCHANGED <<students, sessions, now, started, call, ret, issued, deleted,
                   config, cookie>>

\* SELECT COUNT(*) ... AND logged_in = 1; the result
PctPresent(p) ==
    /\ reqs[p].pc = "filled"
    /\ LET r == reqs[p]
           days == EffectiveDays(r.days)
           end_date == date_today(r.at)
           start_date == end_date - (days - 1)
           present_days ==
               CountRows(attendance,
                         {x \in RowsBetween(attendance, r.sid, start_date, end_date) :
                             x.logged_in = 1})
           total_days == TotalDays(r.record_count, Min(days, (end_date - start_date) + 1))
           percentage == IF total_days > 0 THEN Round2(present_days, total_days) ELSE 0
       IN  reqs' = [reqs EXCEPT ![p].pc = "done",
                                ![p].result = Ok([percentage |-> percentage,
                                                  present_days |-> present_days,
                                                  total_days |-> total_days,
                                                  start_date |-> start_date,
                                                  end_date |-> end_date])]
    /\ UNCHANGED <<students, attendance, sessions, now, started, call, ret, issued,
                   deleted, config, cookie>>

NextInterleaved ==
    \/ Register(LedgerRegistrations)
    \/ \E p \in Requests : MarkSelect(p)
    \/ \E p \in Requests : MarkWrite(p)
    \/ \E p \in Requests : PctCount(p)
    \/ \E p \in Requests : PctBackfill(p)
    \/ \E p \in Requests : PctPresent(p)
    \/ AdvanceClock(InterleavedClockSteps)

SpecInterleaved == Init /\ [][NextInterleaved]_vars

(***************************************************************************)
(* SpecAccounts: Student.create and Student.verify_password.  call records *)
(* the arguments of the last call.                                         *)
(***************************************************************************)
Usernames == {"alice", "bob"}
Passwords == {"pw1", "pw2"}
Emails == {"a@x", "b@x"}

AccountCall(op, username, password, email) ==
    [op |-> op, username |-> username, password |-> password, email |-> email,
     at |-> now]

StudentCreate ==
    \E username \in Usernames, password \in Passwords, email \in Emails :
        LET res == Student_create(students, username, password, username, email)
        IN  /\ students' = res.stu
            /\ ret' = res.ret
            /\ call' = AccountCall("create", username, password, email)
            /\ UNCHANGED <<attendance, sessions, now, started, issued, deleted,
                           config, cookie, reqs>>

VerifyPassword ==
    \E username \in Usernames, password \in Passwords :
        /\ ret' = verify_password(students, username, password)
        /\ call' = AccountCall("verify_password", username, password, "")
        /\ UNCHANGED <<students, attendance, sessions, now, started, issued, deleted,
                       config, cookie, reqs>>

NextAccounts ==
    \/ StudentCreate
    \/ VerifyPassword

SpecAccounts == Init /\ [][NextAccounts]_vars

(***************************************************************************)
(* SpecApp: the request handlers of app.py, one request at a time.  cookie *)
(* is session['session_token'] of the client ("" when the key is absent).  *)
(* A handler's result lists the storage calls it made, in order; call is   *)
(* the last request or client event.                                       *)
(***************************************************************************)
Response(response, student_id, calls, stats, history) ==
    Ok([response |-> response, student_id |-> student_id, calls |-> calls,
        stats |-> stats, history |-> history])

\* variant: the attendance is marked before the session is created
login_mark_first(ses, att, stu, ck, username, password, token, t) ==
    LET student_id == verify_password(stu, username, password).value
        m == mark_attendance(att, stu, student_id, t)
        s == Session_create(ses, stu, student_id, token, t)
    IN  IF student_id = NULL
        THEN [ses |-> ses, att |-> att, cookie |-> ck,
              ret |-> Response("invalid", NULL, <<"verify_password">>, NULL, NULL)]
        ELSE IF m.ret.raised
        THEN [ses |-> ses, att |-> att, cookie |-> ck,
              ret |-> Response("error", student_id,
                               <<"verify_password", "mark_attendance">>, NULL, NULL)]
        ELSE [ses |-> s.ses, att |-> m.att, cookie |-> token,
              ret |-> Response("dashboard", student_id,
                               <<"verify_password", "mark_attendance", "create">>,
                               NULL, NULL)]

\* POST /login; an exception of a storage call is caught and reported
login(ses, att, stu, ck, username, password, token, t) ==
    LET student_id == verify_password(stu, username, password).value
        s == Session_create(ses, stu, student_id, token, t)
        m == mark_attendance(att, stu, student_id, t)
    IN  IF student_id = NULL
        THEN [ses |-> ses, att |-> att, cookie |-> ck,
              ret |-> Response("invalid", NULL, <<"verify_password">>, NULL, NULL)]
        ELSE IF s.ret.raised
        THEN [ses |-> ses, att |-> att, cookie |-> ck,
              ret |-> Response("error", student_id,
                               <<"verify_password", "create">>, NULL, NULL)]
        ELSE IF m.ret.raised
        THEN [ses |-> s.ses, att |-> att, cookie |-> token,
              ret |-> Response("error", student_id,
                               <<"verify_password", "create", "mark_attendance">>,
                               NULL, NULL)]
        ELSE [ses |-> s.ses, att |-> m.att, cookie |-> token,
              ret |-> Response("dashboard", student_id,
                               <<"verify_password", "create", "mark_attendance">>,
                               NULL, NULL)]

\* variant: the token's row is looked up without its expiry
login_required_ignore_expiry(ses, ck, t) ==
    LET rows == SelectSeq(ses, LAMBDA r : r.session_token = ck)
    IN  IF ck = "" THEN [cookie |-> ck, student_id |-> NULL, calls |-> << >>]
        ELSE IF rows = << >>
        THEN [cookie |-> "", student_id |-> NULL, calls |-> <<"validate">>]
        ELSE [cookie |-> ck, student_id |-> rows[1].student_id, calls |-> <<"validate">>]

\* the decorator: student_id = NULL is the redirect to the login page
login_required(ses, ck, t) ==
    LET student_id == Session_validate(ses, ck, t).ret.value
    IN  IF ck = "" THEN [cookie |-> ck, student_id |-> NULL, calls |-> << >>]
        ELSE IF student_id = NULL
        THEN [cookie |-> "", student_id |-> NULL, calls |-> <<"validate">>]
        ELSE [cookie |-> ck, student_id |-> student_id, calls |-> <<"validate">>]

\* GET /api/attendance?days=
api_attendance(ses, att, stu, ck, days, t) ==
    LET lr == login_required(ses, ck, t)
        attendance_stats == get_attendance_percentage(att, stu, lr.student_id, days, t)
        attendance_history ==
            get_attendance_history(attendance_stats.att, lr.student_id, days, t)
    IN  IF lr.student_id = NULL
        THEN [att |-> att, cookie |-> lr.cookie,
              ret |-> Response("login", NULL, lr.calls, NULL, NULL)]
        ELSE IF attendance_stats.ret.raised
        THEN [att |-> att, cookie |-> lr.cookie,
              ret |-> Response("error", lr.student_id,
                               lr.calls \o <<"get_attendance_percentage">>, NULL, NULL)]
        ELSE [att |-> attendance_stats.att, cookie |-> lr.cookie,
              ret |-> Response("json", lr.student_id,
                               lr.calls \o <<"get_attendance_percentage",
                                             "get_attendance_history">>,
                               attendance_stats.ret.value, attendance_history.value)]

\* GET /dashboard: both ledger calls with their default days = 30
dashboard(ses, att, stu, ck, t) ==
    LET lr == login_required(ses, ck, t)
        student == IF lr.student_id \in 1 .. Len(stu) THEN lr.student_id ELSE NULL
        attendance_stats == get_attendance_percentage(att, stu, lr.student_id, 30, t)
        attendance_history ==
            get_attendance_history(attendance_stats.att, lr.student_id, 30, t)
    IN  IF lr.student_id = NULL
        THEN [att |-> att, cookie |-> lr.cookie,
              ret |-> Response("login", NULL, lr.calls, NULL, NULL)]
        ELSE IF student = NULL
        THEN [att |-> att, cookie |-> "",
              ret |-> Response("login", lr.student_id,
                               lr.calls \o <<"get_by_id">>, NULL, NULL)]
        ELSE IF attendance_stats.ret.raised
        THEN [att |-> att, cookie |-> lr.cookie,
              ret |-> Response("login", lr.student_id,
                               lr.calls \o <<"get_by_id", "get_attendance_percentage">>,
                               NULL, NULL)]
        ELSE [att |-> attendance_stats.att, cookie |-> lr.cookie,
              ret |-> Response("dashboard", lr.student_id,
                               lr.calls \o <<"get_by_id", "get_attendance_percentage",
                                             "get_attendance_history">>,
                               attendance_stats.ret.value, attendance_history.value)]

\* GET /logout
logout(ses, ck) ==
    IF ck = "" THEN [ses |-> ses, cookie |-> ck,
                     ret |-> Response("login", NULL, << >>, NULL, NULL)]
    ELSE [ses |-> Session_delete(ses, ck).ses, cookie |-> "",
          ret |-> Response("login", NULL, <<"delete">>, NULL, NULL)]

AppWindows == {1, 7}
AppClockSteps == {12}

AppCall(op, username, password, token, days) ==
    [op |-> op, username |-> username, password |-> password, token |-> token,
     days |-> days, at |-> now]

Login ==
    \E username \in Usernames, password \in Passwords,
       token \in (Tokens \ {i.token : i \in issued}) \ deleted :
        LET res == login(sessions, attendance, students, cookie, username, password,
                         token, now)
        IN  /\ sessions' = res.ses
            /\ attendance' = res.att
            /\ cookie' = res.cookie
            /\ ret' = res.ret
            /\ call' = AppCall("login", username, password, token, 0)
            /\ issued' = IF res.ses = sessions THEN issued
                         ELSE issued \cup {[token |-> token,
                                            student_id |-> res.ret.value.student_id,
                                            created |-> now]}
            /\ UNCHANGED <<students, now, started, deleted, config, reqs>>

Dashboard ==
    LET res == dashboard(sessions, attendance, students, cookie, now)
    IN  /\ attendance' = res.att
        /\ cookie' = res.cookie
        /\ ret' = res.ret
        /\ call' = AppCall("dashboard", "", "", cookie, 30)
        /\ UNCHANGED <<students, sessions, now, started, issued, deleted, config, reqs>>

ApiAttendance ==
    \E days \in AppWindows :
        LET res == api_attendance(sessions, attendance, students, cookie, days, now)
        IN  /\ attendance' = res.att
            /\ cookie' = res.cookie
            /\ ret' = res.ret
            /\ call' = AppCall("api_attendance", "", "", cookie, days)
            /\ UNCHANGED <<students, sessions, now, started, issued, deleted,
                           config, reqs>>

Logout ==
    LET res == logout(sessions, cookie)
    IN  /\ sessions' = res.ses
        /\ cookie' = res.cookie
        /\ ret' = res.ret
        /\ call' = AppCall("logout", "", "", cookie, 0)
        /\ deleted' = IF cookie = "" THEN deleted ELSE deleted \cup {cookie}
        /\ UNCHANGED <<students, attendance, now, started, issued, config, reqs>>

\* the cookie is held by the client, which may send any value with its next
\* request: an earlier one, none, or one the server never set
ClientCookie ==
    \E token \in Tokens \cup {""} :
        /\ cookie' = token
        /\ call' = AppCall("client", "", "", token, 0)
        /\ UNCHANGED <<students, attendance, sessions, now, started, ret, issued,
                       deleted, config, reqs>>

NextApp ==
    \/ Register(LedgerRegistrations)
    \/ Login
    \/ Dashboard
    \/ ApiAttendance
    \/ Logout
    \/ ClientCookie
    \/ AdvanceClock(AppClockSteps)

SpecApp == Init /\ [][NextApp]_vars

(***************************************************************************)
(* SpecLoginInterleaved: POST /login as the statements it executes, for    *)
(* two requests that run at once.  The client session of a request is      *)
(* written to the cookie with the response, also when the handler caught   *)
(* an exception.                                                           *)
(***************************************************************************)
\* Student.verify_password: one SELECT
LoginVerify(p) ==
    /\ Free(p)
    /\ \E username \in Usernames, password \in Passwords :
          LET student_id == verify_password(students, username, password).value
          IN  reqs' = [reqs EXCEPT ![p] =
                         [op |-> "login",
                          pc |-> IF student_id = NULL THEN "done" ELSE "verified",
                          sid |-> student_id, days |-> 0, at |-> now, found |-> "",
                          record_count |-> 0, result |-> Ok("invalid"), token |-> ""]]
    /\ UNCHANGED <<students, attendance, sessions, now, started, call, ret, issued,
                   deleted, config, cookie>>

\* Session.create: INSERT, commit; session['session_token'] = session_token
LoginCreateSession(p) ==
    /\ reqs[p].pc = "verified"
    /\ \E token \in (Tokens \ {i.token : i \in issued}) \ deleted :
          LET res == Session_create(sessions, students, reqs[p].sid, token, now)
          IN  /\ sessions' = res.ses
              /\ issued' = IF res.ret.raised THEN issued
                           ELSE issued \cup {[token |-> token, student_id |-> reqs[p].sid,
                                              created |-> now]}
              /\ reqs' = IF res.ret.raised
                         THEN [reqs EXCEPT ![p].pc = "done", ![p].result = Err]
                         ELSE [reqs EXCEPT ![p].pc = "created", ![p].token = token]
    /\ UNCHANGED <<students, attendance, now, started, call, ret, deleted, config, cookie>>

\* Attendance.mark_attendance: today, now, SELECT
LoginMarkSelect(p) ==
    /\ reqs[p].pc = "created"
    /\ reqs' = [reqs EXCEPT ![p].pc = "looked_up", ![p].at = now,
                            ![p].found = Found(attendance, reqs[p].sid,
                                               date_today(now)).state]
    /\ UNCHANGED <<students, attendance, sessions, now, started, call, ret, issued,
                   deleted, config, cookie>>

\* Attendance.mark_attendance: UPDATE or INSERT, commit; then the response.
\* An IntegrityError is caught by the handler's except clause.
LoginMarkWrite(p) ==
    /\ reqs[p].pc = "looked_up"
    /\ LET r == reqs[p]
           today == date_today(r.at)
           rows == RowsOn(attendance, r.sid, today)
           updated == IF rows = {} THEN attendance
                      ELSE AddRow(RemoveRow(attendance, CHOOSE row \in rows : TRUE),
                                  AttRow(r.sid, today, 1, r.at))
           ins == InsertAttendance(attendance, students, r.sid, {today}, 1, r.at)
           res == IF r.found # "none" THEN [att |-> updated, ret |-> Ok("dashboard")]
                  ELSE IF ins.ok THEN [att |-> ins.att, ret |-> Ok("dashboard")]
                  ELSE [att |-> attendance, ret |-> Err]
       IN  /\ attendance' = res.att
           /\ reqs' = [reqs EXCEPT ![p].pc = "done", ![p].result = res.ret]
           /\ cookie' = r.token
    /\ UNCHANGED <<students, sessions, now, started, call, ret, issued, deleted, config>>

NextLoginInterleaved ==
    \/ Register(LedgerRegistrations)
    \/ \E p \in Requests : LoginVerify(p)
    \/ \E p \in Requests : LoginCreateSession(p)
    \/ \E p \in Requests : LoginMarkSelect(p)
    \/ \E p \in Requests : LoginMarkWrite(p)
    \/ AdvanceClock(InterleavedClockSteps)

SpecLoginInterleaved == Init /\ [][NextLoginInterleaved]_vars

(***************************************************************************)
(* Properties.                                                             *)
(***************************************************************************)
Returned(op) == call.op = op /\ ~ret.raised

\* the step is a call of op (the clock stands still during a call)
Calls(op) == now' = now /\ call'.op = op

Student(sid) == sid \in 1 .. Len(students)

WindowStart(today, w) == today - (w - 1)

WeekdaysOf(today, w) == {d \in WindowStart(today, w) .. today : d % 7 \in 0 .. 4}

RowsOf(att, sid) == {r \in DOMAIN att : r.student_id = sid}

PresentIn(att, sid, a, b) == {r \in RowsBetween(att, sid, a, b) : r.logged_in = 1}

\* C1: in every reachable state the attendance store holds at most one
\* record per (user, date).
C1_OneRecordPerUserDate ==
    /\ \A r \in DOMAIN attendance : attendance[r] = 1
    /\ \A r1, r2 \in DOMAIN attendance :
          (r1.student_id = r2.student_id /\ r1.date = r2.date) => r1 = r2

\* a second login of a day, on a ledger that also holds backfilled rows
C1_Witness ==
    /\ Returned("mark_attendance")
    /\ call.found = "present"
    /\ \E r \in RowsOf(attendance, call.sid) : r.logged_in = 0

C3_PresentStaysPresent ==
    [][ \A r \in DOMAIN attendance :
          r.logged_in = 1 =>
             /\ RowsOn(attendance', r.student_id, r.date) # {}
             /\ \A q \in RowsOn(attendance', r.student_id, r.date) : q.logged_in = 1
      ]_vars

\* a backfill that ran on a later day than a login, the login still present
C3_Witness ==
    /\ Returned("get_attendance_percentage")
    /\ \E r, q \in RowsOf(attendance, call.sid) :
          /\ r.logged_in = 1 /\ r.date < date_today(call.at)
          /\ q.logged_in = 0 /\ q.date = date_today(call.at)

\* C4: percentage(u, w) for a registered user with no record in the window
\* [today - (w - 1), today] returns, persists
\* exactly one absent record without login time for each Monday-to-Friday
\* date of the window and nothing else, and reports total_days = that weekday
\* count, present_days = 0, percentage = 0; for w = 7 total_days is 5.
C4_BackfillOnEmptyWindow ==
    [][ \A u \in StudentIds, w \in WindowSizes :
         LET today == date_today(now)
             wk == WeekdaysOf(today, w)
         IN  ( /\ Calls("get_attendance_percentage")
               /\ call'.sid = u /\ call'.days = w
               /\ Student(u)
               /\ RowsBetween(attendance, u, WindowStart(today, w), today) = {} )
             =>
             /\ ~ret'.raised
             /\ DOMAIN attendance' = DOMAIN attendance \cup {AttRow(u, d, 0, NULL) : d \in wk}
             /\ \A r \in DOMAIN attendance' : attendance'[r] = Copies(attendance, r) + (IF r \in DOMAIN attendance THEN 0 ELSE 1)
             /\ ret'.value.total_days = Cardinality(wk)
             /\ ret'.value.present_days = 0
             /\ ret'.value.percentage = 0
             /\ (w = 7 => ret'.value.total_days = 5) ]_vars

\* a 7-day backfill run on a Sunday: five absent rows, none for the weekend
C4_Witness ==
    /\ Returned("get_attendance_percentage")
    /\ call.days = 7
    /\ date_today(call.at) % 7 = 6
    /\ ret.value.total_days = 5
    /\ CountRows(attendance, RowsOf(attendance, call.sid)) = 5

\* C5: after percentage(u, w) returns, u has a record for every
\* Monday-to-Friday date of the window.
C5_RecordForEveryWeekday ==
    Returned("get_attendance_percentage") =>
        \A d \in WeekdaysOf(date_today(call.at), call.days) :
            RowsOn(attendance, call.sid, d) # {}

\* C6: on a weekday, for a user without a present record in the trailing
\* 7 days, mark_present(u) followed by percentage(u, 7) on the same day
\* returns present_days = 1, total_days = 5 and percentage = 20.00.
C6_MarkThenPercentage ==
    [][ LET today == date_today(now)
        IN  ( /\ Returned("mark_attendance")
              /\ call.found # "present"
              /\ date_today(call.at) = today
              /\ today % 7 \in 0 .. 4
              /\ \A r \in PresentIn(attendance, call.sid, today - 6, today) : r.date = today
              /\ Calls("get_attendance_percentage")
              /\ call'.sid = call.sid /\ call'.days = 7 )
            =>
            /\ ~ret'.raised
            /\ ret'.value.present_days = 1
            /\ ret'.value.total_days = 5
            /\ ret'.value.percentage = 2000 ]_vars

C8_HistoryResult ==
    call.op = "get_attendance_history" =>
        LET today == date_today(call.at)
            rows == RowsBetween(attendance, call.sid, WindowStart(today, call.days), today)
            h == ret.value
        IN  /\ ~ret.raised
            /\ Len(h) >= 1
            /\ rows = {} =>
                  h = <<[date |-> today, logged_in |-> 0, login_time |-> NULL]>>
            /\ rows # {} =>
                  /\ Len(h) = CountRows(attendance, rows)
                  /\ {h[i] : i \in 1 .. Len(h)} = {Entry(r) : r \in rows}
                  /\ \A i \in 1 .. Len(h) - 1 : h[i].date > h[i + 1].date

\* a history of several records, a login among them
C8_Witness ==
    /\ Returned("get_attendance_history")
    /\ call.at = now
    /\ Len(ret.value) >= 3
    /\ \E i \in 1 .. Len(ret.value) : ret.value[i].logged_in = 1

Validate(token) == Session_validate(sessions, token, now).ret.value

\* C9: a token returned by Session.create(u) at time c validates to u at
\* every instant t with c <= t < c + 24 h while it has not been deleted,
\* however many validate calls were made; validate returns None at every
\* t >= c + 24 h and for every token never issued.
C9_TokenValidFor24Hours ==
    /\ \A i \in issued :
          /\ (i.token \notin deleted /\ i.created <= now /\ now < i.created + 24)
                => Validate(i.token) = i.student_id
          /\ now >= i.created + 24 => Validate(i.token) = NULL
    /\ \A token \in Tokens \ {i.token : i \in issued} : Validate(token) = NULL

\* a validate call in the last hour of a token's life
C9_Witness ==
    /\ Returned("validate")
    /\ \E i \in issued :
          /\ i.token = call.token
          /\ call.at = i.created + 23
          /\ ret.value = i.student_id

\* C10: Session.delete(token) returns true exactly when a row with that
\* token existed, and removes it; a delete of a token without a row returns
\* false and leaves the session store unchanged; after a delete,
\* validate(token) returns None in every later state.
C10_DeleteIdempotent ==
    [][ /\ \A token \in deleted' :
              Session_validate(sessions', token, now').ret.value = NULL
        /\ Calls("delete") =>
              LET had == \E k \in 1 .. Len(sessions) : sessions[k].session_token = call'.token
              IN  /\ ~ret'.raised
                  /\ ret'.value = had
                  /\ sessions' = SelectSeq(sessions, LAMBDA r : r.session_token # call'.token)
                  /\ ~had => sessions' = sessions ]_vars

\* a second delete of a token that had been issued and deleted
C10_Witness ==
    /\ Returned("delete")
    /\ ret.value = FALSE
    /\ call.token \in {i.token : i \in issued}
    /\ call.token \in deleted

\* C11: every session row's user id is the id of an existing user:
\* Session.create for an id without a user row raises and persists nothing,
\* and no step removes or renumbers a user.
C11_SessionsReferenceUsers ==
    [][ /\ \A k \in 1 .. Len(sessions') :
              sessions'[k].student_id \in 1 .. Len(students')
        /\ (Calls("create") /\ ~Student(call'.sid)) =>
              ret'.raised /\ sessions' = sessions
        /\ Len(students') >= Len(students)
        /\ SubSeq(students', 1, Len(students)) = students ]_vars

\* a create for an unregistered id was refused while a session is stored
C11_Witness ==
    /\ call.op = "create"
    /\ ret.raised
    /\ ~Student(call.sid)
    /\ Len(sessions) >= 1

\* C12: when the statements of two requests interleave, every
\* mark_attendance and every get_attendance_percentage of a registered user
\* completes without an error of the store, having inserted no (user, date)
\* row that the other request had inserted already, and after a completed
\* mark_attendance(u) exactly one record for (u, today) exists.
C12_InterleavedRequestsComplete ==
    [][ \A p \in Requests :
          (reqs[p].pc # "done" /\ reqs'[p].pc = "done" /\ Student(reqs[p].sid)) =>
             /\ ~reqs'[p].result.raised
             /\ reqs[p].op = "mark_attendance" =>
                   CountRows(attendance',
                             RowsOn(attendance', reqs[p].sid, date_today(reqs[p].at))) = 1
      ]_vars

\* C13: a login whose credentials verify calls verify_password, then
\* Session.create for the verified user, then mark_attendance for that
\* user: afterwards the new token is the client's, validates to the user,
\* and the user's record of today is present with the login's time.  A
\* login whose credentials do not verify calls nothing else: no session row
\* is created, no attendance record changes, the client keeps its cookie.
C13_LoginFlow ==
    [][ Calls("login") =>
          LET ids == {i \in 1 .. Len(students) :
                         /\ students[i].username = call'.username
                         /\ students[i].password = sha256(call'.password)}
              today == date_today(now)
          IN  /\ \A id \in ids :
                    /\ ret'.value.calls = <<"verify_password", "create", "mark_attendance">>
                    /\ ret'.value.student_id = id
                    /\ sessions' = Append(sessions,
                                          [student_id |-> id,
                                           session_token |-> call'.token,
                                           expires_at |-> now + 24])
                    /\ cookie' = call'.token
                    /\ Session_validate(sessions', cookie', now).ret.value = id
                    /\ RowsOn(attendance', id, today) # {}
                    /\ \A r \in RowsOn(attendance', id, today) :
                          r.logged_in = 1 /\ r.login_time = now
              /\ ids = {} =>
                    /\ ret'.value.calls = <<"verify_password">>
                    /\ sessions' = sessions
                    /\ attendance' = attendance
                    /\ cookie' = cookie
      ]_vars

\* a second session was issued by a login on the day after the user's
\* first login
C13_Witness ==
    /\ call.op = "login"
    /\ call.at = now
    /\ ret.value.response = "dashboard"
    /\ Len(sessions) = 2
    /\ cookie = sessions[2].session_token
    /\ \E r \in RowsOf(attendance, ret.value.student_id) :
          r.date < date_today(now) /\ r.logged_in = 1

\* C14: dashboard and api_attendance run the ledger calls only for the user
\* whose unexpired session row holds the presented token, and return that
\* user's percentage and history; with no token, or a token that has no
\* row (never issued, deleted) or an expired row, no ledger call runs, the
\* attendance store is unchanged and the client's token is cleared.
C14_LedgerOnlyForValidToken ==
    [][ (Calls("dashboard") \/ Calls("api_attendance")) =>
          LET live == {k \in 1 .. Len(sessions) :
                          /\ sessions[k].session_token = cookie
                          /\ sessions[k].expires_at > now}
              calls == ret'.value.calls
              days == call'.days
          IN  /\ (cookie = "" \/ live = {}) =>
                    /\ attendance' = attendance
                    /\ cookie' = ""
                    /\ ret'.value.response = "login"
                    /\ \A n \in 1 .. Len(calls) : calls[n] = "validate"
              /\ (cookie # "" /\ live # {}) =>
                    \A k \in live :
                       LET u == sessions[k].student_id
                       IN  /\ ret'.value.student_id = u
                           /\ cookie' = cookie
                           /\ \A r \in DOMAIN attendance \cup DOMAIN attendance' :
                                 r.student_id # u =>
                                    Copies(attendance', r) = Copies(attendance, r)
                           /\ ret'.value.stats =
                                 get_attendance_percentage(attendance, students, u,
                                                           days, now).ret.value
                           /\ ret'.value.history =
                                 get_attendance_history(attendance', u, days, now).value
      ]_vars

\* a dashboard request presented a token that had expired: the store holds
\* the user's record and the cookie is cleared
C14_Witness ==
    /\ call.op = "dashboard"
    /\ call.at = now
    /\ ret.value.response = "login"
    /\ cookie = ""
    /\ \E i \in issued :
          /\ i.token = call.token
          /\ i.token \notin deleted
          /\ i.created + 24 <= now
          /\ RowsOf(attendance, i.student_id) # {}

\* C15: the (username, password) of a successful Student.create is stored
\* as a row that never changes, and verify_password returns the id of the
\* row for exactly that username with exactly that password, and None for
\* every other password and for a username without a row; a
\* verify_password call changes no table.
C15_VerifyPassword ==
    [][ /\ (call'.op = "create" /\ ret'.value = TRUE) =>
              LET id == Len(students')
              IN  /\ id = Len(students) + 1
                  /\ students'[id].username = call'.username
                  /\ students'[id].password = sha256(call'.password)
                  /\ verify_password(students', call'.username, call'.password).value = id
        /\ \A i \in 1 .. Len(students) : students'[i] = students[i]
        /\ \A username \in Usernames, password \in Passwords :
              LET ids == {i \in 1 .. Len(students') : students'[i].username = username}
                  id == verify_password(students', username, password).value
              IN  /\ ids = {} => id = NULL
                  /\ \A i \in ids :
                        id = IF students'[i].password = sha256(password) THEN i ELSE NULL
        /\ call'.op = "verify_password" =>
              /\ ~ret'.raised
              /\ ret' = verify_password(students, call'.username, call'.password)
              /\ <<students', attendance', sessions'>> = <<students, attendance, sessions>>
      ]_vars

\* the second user's password was refused for the first user's name, with
\* both registered
C15_Witness ==
    /\ call.op = "verify_password"
    /\ ret.value = NULL
    /\ Len(students) = 2
    /\ \E i, j \in 1 .. Len(students) :
          /\ i # j
          /\ students[i].username = call.username
          /\ students[j].password = sha256(call.password)

\* C16: Student.create with a username or an email that a stored user has
\* returns false without raising and leaves the user store unchanged; in
\* every reachable state usernames and emails are unique.
C16_CreateRejectsDuplicates ==
    [][ /\ ( /\ call'.op = "create"
             /\ \E i \in 1 .. Len(students) :
                   \/ students[i].username = call'.username
                   \/ students[i].email = call'.email )
            => (~ret'.raised /\ ret'.value = FALSE /\ students' = students)
        /\ \A i, j \in 1 .. Len(students') :
              i # j => /\ students'[i].username # students'[j].username
                       /\ students'[i].email # students'[j].email
      ]_vars

\* a new username was refused for an email that is taken
C16_Witness ==
    /\ call.op = "create"
    /\ ret.value = FALSE
    /\ \A i \in 1 .. Len(students) : students[i].username # call.username
    /\ \E i \in 1 .. Len(students) : students[i].email = call.email

\* C17: no two rows of the session store hold the same token, whatever
\* token the generator returns.
C17_TokensUnique ==
    \A j, k \in 1 .. Len(sessions) :
        j # k => sessions[j].session_token # sessions[k].session_token

\* C18: get_attendance_percentage(u, w) changes the attendance store only
\* when u has no record in [today - (w - 1), today]; when u has at least
\* one record there the whole store is unchanged; and it never adds or
\* changes a record of another user.
C18_BackfillOneShot ==
    [][ Calls("get_attendance_percentage") =>
          LET u == call'.sid
              today == date_today(now)
              inWindow == RowsBetween(attendance, u, WindowStart(today, call'.days), today)
          IN  /\ inWindow # {} => attendance' = attendance
              /\ attendance' # attendance => inWindow = {}
              /\ \A r \in DOMAIN attendance \cup DOMAIN attendance' :
                    r.student_id # u => Copies(attendance', r) = Copies(attendance, r)
      ]_vars

\* a call that wrote nothing although weekdays of the window have no
\* record, while another user has records
C18_Witness ==
    /\ Returned("get_attendance_percentage")
    /\ call.at = now
    /\ ret.value.total_days >= 1
    /\ ret.value.total_days < Cardinality(WeekdaysOf(date_today(now), call.days))
    /\ \E r \in DOMAIN attendance : r.student_id # call.sid

\* C19: for the same user, the same day and the same days argument,
\* get_attendance_history called right after get_attendance_percentage
\* reported total_days > 0 returns exactly total_days entries, under every
\* configured default period and also for days = 30.
C19_SameWindow ==
    [][ ( /\ Returned("get_attendance_percentage")
          /\ ret.value.total_days > 0
          /\ Calls("get_attendance_history")
          /\ call'.sid = call.sid
          /\ call'.days = call.days
          /\ date_today(now) = date_today(call.at) )
        => Len(ret'.value) = ret.value.total_days ]_vars

\* C20: a stored attendance record is never deleted, and it changes only
\* in mark_attendance(u), which changes only the record of (u, today):
\* every record of another user and every record of an earlier date keeps
\* its present flag and its login time in the next state, whatever the step.
C20_RecordsKept ==
    [][ \A r \in DOMAIN attendance :
          \/ r \in DOMAIN attendance' /\ attendance'[r] = attendance[r]
          \/ /\ Calls("mark_attendance")
             /\ r.student_id = call'.sid
             /\ r.date = date_today(now)
             /\ RowsOn(attendance', r.student_id, r.date) # {}
      ]_vars

\* a login rewrote today's record while the user has a record of an
\* earlier date and another user has records
C20_Witness ==
    /\ Returned("mark_attendance")
    /\ call.at = now
    /\ call.found # "none"
    /\ \E r \in RowsOf(attendance, call.sid) : r.date < date_today(now)
    /\ \E r \in DOMAIN attendance : r.student_id # call.sid

\* C21: get_attendance_history(u, w) changes no table: the entry for
\* today that it returns when u has no record in the window is not stored,
\* and get_attendance_percentage(u, w) called next on the same day still
\* finds no record and backfills the weekdays of the window.
C21_HistoryReadsOnly ==
    [][ /\ Calls("get_attendance_history") =>
              LET today == date_today(now)
                  rows == RowsBetween(attendance, call'.sid,
                                      WindowStart(today, call'.days), today)
              IN  /\ <<students', attendance', sessions'>> = <<students, attendance, sessions>>
                  /\ rows = {} =>
                        /\ ret'.value = <<[date |-> today, logged_in |-> 0,
                                           login_time |-> NULL]>>
                        /\ Copies(attendance', AttRow(call'.sid, today, 0, NULL))
                              = Copies(attendance, AttRow(call'.sid, today, 0, NULL))
        /\ ( /\ call.op = "get_attendance_history"
             /\ date_today(call.at) = date_today(now)
             /\ Len(ret.value) = 1 /\ ret.value[1].login_time = NULL
             /\ RowsOn(attendance, call.sid, date_today(now)) = {}
             /\ RowsBetween(attendance, call.sid,
                            WindowStart(date_today(now), call.days), date_today(now)) = {}
             /\ Student(call.sid)
             /\ Calls("get_attendance_percentage")
             /\ call'.sid = call.sid /\ call'.days = call.days )
            =>
            LET wk == WeekdaysOf(date_today(now), call.days)
            IN  /\ ~ret'.raised
                /\ DOMAIN attendance' =
                      DOMAIN attendance \cup {AttRow(call.sid, d, 0, NULL) : d \in wk}
                /\ ret'.value.total_days = Cardinality(wk)
      ]_vars

\* a history call for a registered user without any record, on a weekday,
\* returned the made-up entry and the store still has no record of the user
C21_Witness ==
    /\ Returned("get_attendance_history")
    /\ call.at = now
    /\ call.days = 7
    /\ Student(call.sid)
    /\ date_today(now) % 7 \in 0 .. 4
    /\ ret.value = <<[date |-> date_today(now), logged_in |-> 0, login_time |-> NULL]>>
    /\ RowsOf(attendance, call.sid) = {}

\* C22: a login request whose mark_attendance failed leaves no trace of
\* its session: once the request has ended, the token it created validates
\* to nobody and is not the client's; and a login request that ended with
\* a token issued has the user's record of the login day present.
C22_LoginAllOrNothing ==
    \A p \in Requests :
        (reqs[p].op = "login" /\ reqs[p].pc = "done" /\ reqs[p].sid # NULL) =>
           /\ reqs[p].result.raised =>
                 /\ Session_validate(sessions, reqs[p].token, now).ret.value = NULL
                 /\ cookie # reqs[p].token
           /\ (~reqs[p].result.raised) =>
                 \E r \in RowsOn(attendance, reqs[p].sid, date_today(reqs[p].at)) :
                     r.logged_in = 1

====
